---------------------------- MODULE Spec2Model ----------------------------
(***************************************************************************)
(* OAuth 2.0 Authorization Code Flow with PKCE of himalaya                 *)
(* (src/account/command/auth/flow.rs): OAuthFlow::execute and the helpers  *)
(* it calls, as a state machine of one or two concurrent execute() calls,  *)
(* the terminal (stdout, stdin), the user, the clock and the token         *)
(* endpoint.                                                               *)
(*                                                                         *)
(* Strings the code inspects character by character (the line read from    *)
(* stdin, the verifier, the state, the URL) are sequences of one-character *)
(* strings.  Strings the code only passes on (tokens, messages) are TLA+   *)
(* strings.                                                                *)
(*                                                                         *)
(* The specifications: Spec is one call with the full sets of inputs,      *)
(* SpecConc two concurrent calls, SpecPair two runs for one account,       *)
(* SpecLive one call under fairness, and SpecDevice the poll loop of the   *)
(* device authorization flow, which has no code in flow.rs and follows     *)
(* section 4.5 of the specification.                                       *)
(***************************************************************************)
EXTENDS Integers, Sequences, FiniteSets, TLC

(***************************************************************************)
(* Bounds of the model.                                                    *)
(***************************************************************************)
\* number of lines the user types in one run
MaxTyped == 1
\* last tick of the clock
MaxTime == 1
\* the random generator's streams are numbered 0..MaxSeed
MaxSeed == 1
\* largest expires_in of a device authorization, in seconds
MaxExpires == 5
\* largest interval of a device authorization, in seconds
MaxInterval == 2
\* longest time a poll request takes to be answered, in seconds
MaxPollTime == 1

(***************************************************************************)
(* Characters.                                                             *)
(***************************************************************************)
Upper ==
  {"A","B","C","D","E","F","G","H","I","J","K","L","M",
   "N","O","P","Q","R","S","T","U","V","W","X","Y","Z"}

Lower ==
  {"a","b","c","d","e","f","g","h","i","j","k","l","m",
   "n","o","p","q","r","s","t","u","v","w","x","y","z"}

Digit == {"0","1","2","3","4","5","6","7","8","9"}

\* flow.rs:232
PKCE_CHARSET ==
  <<"A","B","C","D","E","F","G","H","I","J","K","L","M",
    "N","O","P","Q","R","S","T","U","V","W","X","Y","Z",
    "a","b","c","d","e","f","g","h","i","j","k","l","m",
    "n","o","p","q","r","s","t","u","v","w","x","y","z",
    "0","1","2","3","4","5","6","7","8","9","-",".","_","~">>

\* characters outside the PKCE alphabet that the model's strings use
Special == {" ", "\n", "\t", "&", "=", "?", "/", ":", "+", "%"}

RECURSIVE IndexOf(_, _, _)
\* position of c in the sequence s at or after i, 0 when there is none
IndexOf(s, c, i) ==
  IF i > Len(s) THEN 0
  ELSE IF s[i] = c THEN i
  ELSE IndexOf(s, c, i + 1)

\* the byte of an ASCII character (char as u8)
AsciiCode(c) ==
  LET k == IndexOf(PKCE_CHARSET, c, 1) IN
  IF k \in 1..26 THEN 64 + k
  ELSE IF k \in 27..52 THEN 96 + (k - 26)
  ELSE IF k \in 53..62 THEN 48 + (k - 53)
  ELSE CASE c = "-" -> 45
         [] c = "." -> 46
         [] c = "_" -> 95
         [] c = "~" -> 126
         [] c = " " -> 32
         [] c = "\n" -> 10
         [] c = "\t" -> 9
         [] c = "&" -> 38
         [] c = "=" -> 61
         [] c = "?" -> 63
         [] c = "/" -> 47
         [] c = ":" -> 58
         [] c = "+" -> 43
         [] c = "%" -> 37

AsciiTable == [c \in Upper \cup Lower \cup Digit \cup {"-", ".", "_", "~"} \cup Special
                 |-> AsciiCode(c)]

Ascii(c) == AsciiTable[c]

RECURSIVE Join(_, _)
\* slice::join: the strings of ss with sep between them
Join(ss, sep) ==
  IF ss = <<>> THEN <<>>
  ELSE IF Len(ss) = 1 THEN ss[1]
  ELSE ss[1] \o sep \o Join(Tail(ss), sep)

(***************************************************************************)
(* str::trim (flow.rs:166).                                                *)
(***************************************************************************)
\* char::is_whitespace on the characters of the model
is_whitespace(c) == c \in {" ", "\n", "\t"}

RECURSIVE trim_start(_)
trim_start(s) ==
  IF s # <<>> /\ is_whitespace(Head(s)) THEN trim_start(Tail(s)) ELSE s

RECURSIVE trim_end(_)
trim_end(s) ==
  IF s # <<>> /\ is_whitespace(s[Len(s)])
  THEN trim_end(SubSeq(s, 1, Len(s) - 1))
  ELSE s

\* a plausible slip: only the line ending is removed
trim_newline_only(s) ==
  IF s # <<>> /\ s[Len(s)] = "\n" THEN SubSeq(s, 1, Len(s) - 1) ELSE s

\* a plausible slip: str::trim_end in place of str::trim
trim_end_only(s) == trim_end(s)

trim(s) == trim_end(trim_start(s))


(***************************************************************************)
(* urlencoding::encode (flow.rs:143): every byte outside                   *)
(* [A-Za-z0-9-_.~] becomes %XX with upper-case hexadecimal digits.         *)
(***************************************************************************)
HexDigits ==
  <<"0","1","2","3","4","5","6","7","8","9","A","B","C","D","E","F">>

url_unreserved(c) == c \in Upper \cup Lower \cup Digit \cup {"-", "_", ".", "~"}

encode_char(c) ==
  IF url_unreserved(c) THEN <<c>>
  ELSE <<"%", HexDigits[(Ascii(c) \div 16) + 1], HexDigits[(Ascii(c) % 16) + 1]>>

RECURSIVE urlencoding_encode(_)
urlencoding_encode(v) ==
  IF v = <<>> THEN <<>>
  ELSE encode_char(Head(v)) \o urlencoding_encode(Tail(v))

(***************************************************************************)
(* base64 URL_SAFE_NO_PAD (flow.rs:105-106).                               *)
(***************************************************************************)
\* a plausible slip: the engine general_purpose::STANDARD, whose alphabet
\* ends with + and /
STANDARD == SubSeq(PKCE_CHARSET, 1, 62) \o <<"+", "/">>

\* the URL-safe base64 alphabet: A-Z a-z 0-9 - _
URL_SAFE == SubSeq(PKCE_CHARSET, 1, 62) \o <<"-", "_">>

RECURSIVE base64_encode(_)
\* three bytes give four characters; a rest of one or two bytes gives two or
\* three characters and no '=' padding
base64_encode(bytes) ==
  IF Len(bytes) = 0 THEN <<>>
  ELSE IF Len(bytes) = 1 THEN
    LET n == bytes[1] * 16 IN
    <<URL_SAFE[(n \div 64) + 1], URL_SAFE[(n % 64) + 1]>>
  ELSE IF Len(bytes) = 2 THEN
    LET n == (bytes[1] * 256 + bytes[2]) * 4 IN
    <<URL_SAFE[(n \div 4096) + 1], URL_SAFE[((n \div 64) % 64) + 1],
      URL_SAFE[(n % 64) + 1]>>
  ELSE
    LET n == bytes[1] * 65536 + bytes[2] * 256 + bytes[3] IN
    <<URL_SAFE[(n \div 262144) + 1], URL_SAFE[((n \div 4096) % 64) + 1],
      URL_SAFE[((n \div 64) % 64) + 1], URL_SAFE[(n % 64) + 1]>>
    \o base64_encode(SubSeq(bytes, 4, Len(bytes)))

(***************************************************************************)
(* Sha256 (flow.rs:101-103).  The digest of the sha2 crate is an external  *)
(* function; the model keeps what the flow relies on: a deterministic      *)
(* function from the verifier's bytes to 32 bytes, any of the 256 values   *)
(* in any position.  The bytes are a positional checksum, not SHA-256.     *)
(***************************************************************************)
DigestLen == 32

RECURSIVE BlockSum(_, _, _)
\* the bytes at the positions j, j + 32, j + 64, ... weighted and summed
BlockSum(bytes, i, j) ==
  IF j > Len(bytes) THEN (7 * i) % 256
  ELSE (bytes[j] * (i + j) + 31 * BlockSum(bytes, i, j + DigestLen)) % 256

Sha256(bytes) == <<>> \o [i \in 1..DigestLen |-> BlockSum(bytes, i, i)]

(***************************************************************************)
(* rand::thread_rng (flow.rs:93, 115).  A generator is a stream of         *)
(* numbers; the model draws from the streams seed = 0..MaxSeed.  gen_range *)
(* reduces a draw to the range 0..n-1.                                     *)
(***************************************************************************)
Seeds == 0..MaxSeed

rng_next(seed, i) == 29 * seed + (2 * seed + 1) * i

gen_range(seed, i, n) == rng_next(seed, i) % n

\* flow.rs:94
VerifierLen == 128

\* flow.rs:116
StateLen == 32

\* a plausible slip: an inclusive range, one character too many
random_string_inclusive(seed, first, n) ==
  <<>> \o [i \in 1..(n + 1) |->
     PKCE_CHARSET[gen_range(seed, first + i - 1, Len(PKCE_CHARSET)) + 1]]

\* flow.rs:94-99, 116-121: (0..n).map(|_| PKCE_CHARSET[gen_range(0..len)]).collect()
\* from the draws first, first+1, ... of the thread's generator
random_string(seed, first, n) ==
  <<>> \o [i \in 1..n |->
     PKCE_CHARSET[gen_range(seed, first + i - 1, Len(PKCE_CHARSET)) + 1]]

\* str::as_bytes (flow.rs:102)
as_bytes(str) == <<>> \o [i \in 1..Len(str) |-> Ascii(str[i])]

\* flow.rs:101-106: the challenge of a verifier
pkce_challenge(verifier) == base64_encode(Sha256(as_bytes(verifier)))

\* flow.rs:108
pkce_pair(verifier) == <<pkce_challenge(verifier), verifier>>

\* flow.rs:90-109: the pair (challenge, verifier)
generate_pkce_pair(seed) == pkce_pair(random_string(seed, 0, VerifierLen))

\* a plausible slip: the range 1..32 in place of 0..32
generate_state_short(seed) == random_string(seed, VerifierLen, StateLen - 1)

\* flow.rs:112-122: the same thread's generator, after the verifier's draws
generate_state(seed) == random_string(seed, VerifierLen, StateLen)

\* what the two generators give on each stream of the random generator,
\* computed once
thread_rng_pairs == [seed \in Seeds |-> generate_pkce_pair(seed)]

thread_rng_states == [seed \in Seeds |-> generate_state(seed)]

(***************************************************************************)
(* Result<T, AuthError>.  An error has its kind, the fixed part of its     *)
(* message and the interpolated text.                                      *)
(***************************************************************************)
JAbsent == [t |-> "absent", s |-> "", n |-> 0]
JNull == [t |-> "null", s |-> "", n |-> 0]
JStr(s) == [t |-> "str", s |-> s, n |-> 0]
JNum(n) == [t |-> "num", s |-> "", n |-> n]

\* a response body: text that is no JSON, or a JSON object with these members
TextBody == [kind |-> "text", access_token |-> JAbsent,
             refresh_token |-> JAbsent, expires_in |-> JAbsent]
NoBody == [kind |-> "none", access_token |-> JAbsent,
           refresh_token |-> JAbsent, expires_in |-> JAbsent]
ObjectBody(at, rt, ex) == [kind |-> "object", access_token |-> at,
                           refresh_token |-> rt, expires_in |-> ex]

NoTokens == [access_token |-> "", refresh_token |-> <<>>, expires_in |-> <<>>]
NoError == [kind |-> "", msg |-> "", text |-> "", body |-> NoBody]

Ok(v) == [ok |-> TRUE, val |-> v, err |-> NoError]
Err(kind, msg, text, body) ==
  [ok |-> FALSE, val |-> <<>>,
   err |-> [kind |-> kind, msg |-> msg, text |-> text, body |-> body]]

(***************************************************************************)
(* ProviderConfig (provider.rs): the authorization URL, the token URL and  *)
(* the scopes; scopes_str joins the scopes with a space.                   *)
(***************************************************************************)
GmailConfig ==
  [auth_url |-> <<"h",":","/","/","g","/","a">>,
   token_url |-> "https://g/token",
   scopes |-> << <<"h",":","/","/","m","/">> >>]

OutlookConfig ==
  [auth_url |-> <<"h",":","/","/","o","/","a">>,
   token_url |-> "https://o/token",
   scopes |-> << <<"I","M","A","P">>, <<"o","f","f","+","a">> >>]

scopes_str(config) == Join(config.scopes, <<" ">>)

\* OAuthFlow::new (flow.rs:45-56); provider.config() is the provider's config
OAuthFlow_new(config, client_id, client_secret) ==
  [provider |-> config, client_id |-> client_id, client_secret |-> client_secret]

Flows ==
  {OAuthFlow_new(GmailConfig, <<"c","1">>, "s1"),
   OAuthFlow_new(GmailConfig, <<"a","&","b","=">>, "s2"),
   OAuthFlow_new(OutlookConfig, <<"x","%"," ","?">>, "s3")}

(***************************************************************************)
(* build_authorization_url (flow.rs:125-148).                              *)
(***************************************************************************)
K_client_id == <<"c","l","i","e","n","t","_","i","d">>
K_response_type == <<"r","e","s","p","o","n","s","e","_","t","y","p","e">>
K_scope == <<"s","c","o","p","e">>
K_state == <<"s","t","a","t","e">>
K_code_challenge == <<"c","o","d","e","_","c","h","a","l","l","e","n","g","e">>
K_code_challenge_method ==
  K_code_challenge \o <<"_","m","e","t","h","o","d">>
K_access_type == <<"a","c","c","e","s","s","_","t","y","p","e">>
V_code == <<"c","o","d","e">>
V_S256 == <<"S","2","5","6">>
V_offline == <<"o","f","f","l","i","n","e">>

\* a plausible slip: state and scope change places
params_swapped(self, config, state, code_challenge) ==
  << <<K_client_id, self.client_id>>,
     <<K_response_type, V_code>>,
     <<K_state, state>>,
     <<K_scope, scopes_str(config)>>,
     <<K_code_challenge, code_challenge>>,
     <<K_code_challenge_method, V_S256>>,
     <<K_access_type, V_offline>> >>

\* flow.rs:131-139
params(self, config, state, code_challenge) ==
  << <<K_client_id, self.client_id>>,
     <<K_response_type, V_code>>,
     <<K_scope, scopes_str(config)>>,
     <<K_state, state>>,
     <<K_code_challenge, code_challenge>>,
     <<K_code_challenge_method, V_S256>>,
     <<K_access_type, V_offline>> >>

\* flow.rs:141-145
query_string(ps) ==
  Join(<<>> \o [i \in 1..Len(ps) |->
                  ps[i][1] \o <<"=">> \o urlencoding_encode(ps[i][2])],
       <<"&">>)

\* flow.rs:125-148
build_authorization_url(self, config, state, code_challenge) ==
  Ok(config.auth_url \o <<"?">>
       \o query_string(params(self, config, state, code_challenge)))

(***************************************************************************)
(* prompt_for_authorization_code (flow.rs:151-174).  What read_line finds  *)
(* on stdin is an item: a line with its newline, the end of input, or an   *)
(* I/O error (flow.rs:162).                                                *)
(***************************************************************************)
Line(s) == [t |-> "line", s |-> s]
EndOfInput == [t |-> "eof", s |-> <<>>]
IoError == [t |-> "ioerr", s |-> <<>>]
NoItem == [t |-> "none", s |-> <<>>]

\* flow.rs:155-157
flush_error == Err("ConfigError", "Failed to flush stdout: {}", "io error", NoBody)

\* flow.rs:162-164
read_error ==
  Err("ConfigError", "Failed to read authorization code: {}", "io error", NoBody)

\* a plausible slip: the error kind section 7 of the spec gives for this case
empty_code_error_cancelled ==
  Err("UserCancelled", "Authorization code cannot be empty", "", NoBody)

\* flow.rs:168-170
empty_code_error ==
  Err("ConfigError", "Authorization code cannot be empty", "", NoBody)

\* flow.rs:161-173: read_line leaves code empty at the end of input
read_authorization_code(item) ==
  IF item.t = "ioerr" THEN read_error
  ELSE LET code == trim(item.s) IN
       IF code = <<>> THEN empty_code_error ELSE Ok(code)

(***************************************************************************)
(* exchange_code_for_tokens (flow.rs:177-228).                             *)
(***************************************************************************)
\* a plausible slip: the two string arguments in the other order
TokenRequest_swapped(self, code, code_verifier) ==
  [client_id |-> self.client_id,
   client_secret |-> self.client_secret,
   code |-> code_verifier,
   grant_type |-> "authorization_code",
   code_verifier |-> code]

\* flow.rs:185-191
TokenRequest(self, code, code_verifier) ==
  [client_id |-> self.client_id,
   client_secret |-> self.client_secret,
   code |-> code,
   grant_type |-> "authorization_code",
   code_verifier |-> code_verifier]

\* StatusCode::is_success (flow.rs:202)
is_success(status) == status >= 200 /\ status <= 299

\* flow.rs:200
network_error == Err("NetworkError", "{}", "reqwest error", NoBody)

\* flow.rs:203-206: the body as text, "Unknown error" when reading it fails
\* (response.readable is whether the body the endpoint sent arrives)
error_text(response) ==
  IF response.readable
  THEN [text |-> "{body}", body |-> response.body]
  ELSE [text |-> "Unknown error", body |-> NoBody]

\* flow.rs:207-210
status_error(response) ==
  Err("TokenExchangeFailed", "Failed to exchange authorization code: {}",
      error_text(response).text, error_text(response).body)

\* a plausible slip: the failure of response.json() taken for a transport failure
parse_error_network(text) == Err("NetworkError", "{}", text, NoBody)

\* flow.rs:216-219
parse_error(text) ==
  Err("TokenExchangeFailed", "Failed to parse token response: {}", text, NoBody)

\* Option<String> with #[serde(default)] (flow.rs:30-31)
de_option_string(v) ==
  IF v.t \in {"absent", "null"} THEN Ok(<<>>)
  ELSE IF v.t = "str" THEN Ok(<<v.s>>)
  ELSE parse_error("invalid type")

\* Option<u64> with #[serde(default)] (flow.rs:32-33)
de_option_u64(v) ==
  IF v.t \in {"absent", "null"} THEN Ok(<<>>)
  ELSE IF v.t = "num" /\ v.n >= 0 THEN Ok(<<v.n>>)
  ELSE parse_error("invalid type")

\* String, required (flow.rs:29)
de_string(v) ==
  IF v.t = "str" THEN Ok(v.s)
  ELSE IF v.t = "absent" THEN parse_error("missing field")
  ELSE parse_error("invalid type")

\* response.json::<TokenResponse>() (flow.rs:213-219, 27-34)
response_json(response) ==
  IF ~response.readable THEN parse_error("reqwest error")
  ELSE IF response.body.kind # "object" THEN parse_error("expected value")
  ELSE LET at == de_string(response.body.access_token)
           rt == de_option_string(response.body.refresh_token)
           ex == de_option_u64(response.body.expires_in)
       IN IF ~at.ok THEN at
          ELSE IF ~rt.ok THEN rt
          ELSE IF ~ex.ok THEN ex
          ELSE Ok([access_token |-> at.val, refresh_token |-> rt.val,
                   expires_in |-> ex.val])

\* a plausible slip: the refresh token is not copied
OAuthTokens_no_refresh(token_response) ==
  [access_token |-> token_response.access_token,
   refresh_token |-> <<>>,
   expires_in |-> token_response.expires_in]

\* flow.rs:223-227
OAuthTokens(token_response) ==
  [access_token |-> token_response.access_token,
   refresh_token |-> token_response.refresh_token,
   expires_in |-> token_response.expires_in]

\* a plausible slip: no return in the non-2xx branch, the body is parsed anyway
handle_response_no_return(response) ==
  LET token_response == response_json(response) IN
  IF ~token_response.ok THEN token_response
  ELSE Ok(OAuthTokens(token_response.val))

\* flow.rs:202-227: what exchange_code_for_tokens returns once send() has
\* given a response
handle_response(response) ==
  IF ~is_success(response.status) THEN status_error(response)
  ELSE LET token_response == response_json(response) IN
       IF ~token_response.ok THEN token_response
       ELSE Ok(OAuthTokens(token_response.val))

(***************************************************************************)
(* The state: the concurrent execute() calls, each with its locals, and    *)
(* what they share: the process's stdin and stdout, and the clock.         *)
(***************************************************************************)
VARIABLES
  this,                \* call -> the OAuthFlow it runs on (&self)
  pc,                  \* call -> where execute() is
  rng,                 \* call -> the stream of its thread's generator
  code_verifier,       \* call -> flow.rs:63
  code_challenge,      \* call -> flow.rs:63
  state,               \* call -> flow.rs:66
  auth_url,            \* call -> flow.rs:69
  item,                \* call -> what read_line found (flow.rs:162)
  authorization_code,  \* call -> flow.rs:77
  requests,            \* call -> the token requests it has POSTed
  response,            \* call -> the response send() gave it
  result,              \* call -> what execute() returned
  steps,               \* call -> the steps it has run, in order
  stdout,              \* call -> what it has printed
  stdin,               \* the items typed and not yet read
  stdin_closed,        \* the user has ended the input
  stdin_lock,          \* the call holding the lock of stdin, 0 when none
  typed,               \* number of items typed so far
  now,                 \* the clock
  device               \* the run of the device authorization flow

vars ==
  <<this, pc, rng, code_verifier, code_challenge, state, auth_url, item,
    authorization_code, requests, response, result, steps, stdout, stdin,
    stdin_closed, stdin_lock, typed, now, device>>

Calls == DOMAIN pc

\* the locals of one call
Locals(p) ==
  <<pc[p], code_verifier[p], code_challenge[p], state[p], auth_url[p], item[p],
    authorization_code[p], requests[p], response[p], result[p], steps[p],
    stdout[p]>>

NoResponse == [status |-> 0, readable |-> FALSE, body |-> NoBody]
NoResult == [ok |-> FALSE, val |-> <<>>, err |-> NoError]

Returned(p) == pc[p] \in {"Done", "Failed"}
Running == \E p \in Calls : ~Returned(p)

(***************************************************************************)
(* What the environment may give.                                          *)
(***************************************************************************)
\* lines the user may type, each with its newline
Lines ==
  {<<"\n">>, <<" ", "\n">>, <<"\t", " ", "\n">>,
   <<"a", "\n">>, <<" ", "a", " ", "\n">>, <<"a", " ", "b", "\n">>}

StdinItems == {Line(l) : l \in Lines} \cup {IoError}

Statuses == {200, 299, 400}

Bodies ==
  {TextBody} \cup
  {ObjectBody(at, rt, ex) :
     at \in {JAbsent, JNull, JStr("at1")},
     rt \in {JAbsent, JNull, JStr("rt1"), JNum(5)},
     ex \in {JAbsent, JNull, JNum(3600), JNum(-1), JStr("3600")}}

Responses ==
  {[status |-> st, readable |-> TRUE, body |-> b] : st \in Statuses, b \in Bodies}
  \cup {[status |-> st, readable |-> FALSE, body |-> b] :
          st \in Statuses,
          b \in {TextBody, ObjectBody(JStr("at1"), JStr("rt1"), JNum(3600))}}

\* the smaller sets of the runs with two calls
FewItems == {Line(<<"a", "\n">>), Line(<<"\n">>)}
FewResponses ==
  {[status |-> 200, readable |-> TRUE,
    body |-> ObjectBody(JStr("at1"), JAbsent, JAbsent)],
   [status |-> 400, readable |-> TRUE, body |-> TextBody]}

(***************************************************************************)
(* DeviceAuthorizationFlow, the polling state machine (spec 4.5).  The     *)
(* outcome of one poll, the interval that follows it and the failure it    *)
(* ends the flow with.                                                     *)
(***************************************************************************)
\* an absent and a present optional field
None == <<>>
Some(x) == <<x>>

\* the per-request timeout of a poll, in seconds (spec 4.5)
poll_request_timeout == 10

\* a plausible slip: access_denied is not told apart from the other errors
classify_error_no_denied(error) ==
  IF error = None THEN "Success"
  ELSE IF error = Some("authorization_pending") THEN "Pending"
  ELSE IF error = Some("slow_down") THEN "SlowDown"
  ELSE IF error = Some("expired_token") THEN "Expired"
  ELSE "Fatal"

\* spec 4.5, "Interpret the response error field"
classify_error(error) ==
  IF error = None THEN "Success"
  ELSE IF error = Some("authorization_pending") THEN "Pending"
  ELSE IF error = Some("slow_down") THEN "SlowDown"
  ELSE IF error = Some("expired_token") THEN "Expired"
  ELSE IF error = Some("access_denied") THEN "Denied"
  ELSE "Fatal"

\* a plausible slip: the error field is read whatever the status is
poll_outcome_by_error(poll_response) == classify_error(poll_response.error)

\* spec 4.5: a non-2xx status of the poll is Fatal, independent of the error
\* field; a request that timed out has no response
poll_outcome(poll_response) ==
  IF ~is_success(poll_response.status) THEN "Fatal"
  ELSE classify_error(poll_response.error)

\* spec 4.5: poll_interval = max(interval, 1 second)
initial_poll_interval(interval) == IF interval > 1 THEN interval ELSE 1

\* a plausible slip: the doubled interval is lost
next_poll_interval_lost(poll_interval, outcome) == poll_interval

\* spec 4.5: slow_down doubles poll_interval for all the waits that follow
next_poll_interval(poll_interval, outcome) ==
  IF outcome = "SlowDown" THEN 2 * poll_interval ELSE poll_interval

\* a plausible slip: the deadline itself is still in time
expired_after(t, deadline) == t > deadline

\* spec 4.5: the check at loop entry, now >= deadline
expired(t, deadline) == t >= deadline

DeviceTokens ==
  [access_token |-> "at1", refresh_token |-> Some("rt1"), expires_in |-> Some(3600)]

\* spec 4.5 and 7: what execute() returns for the outcome of a poll
outcome_result(outcome, poll_response) ==
  CASE outcome = "Success" -> Ok(DeviceTokens)
    [] outcome = "Denied" ->
         Err("UserCancelled", "access_denied", "", NoBody)
    [] outcome = "Expired" ->
         Err("CallbackTimeout", "expired_token", "", NoBody)
    [] outcome = "Fatal" ->
         Err("TokenExchangeFailed", "poll failed", poll_response.error, NoBody)

\* spec 4.5 and 7: the overall deadline has passed
deadline_error == Err("CallbackTimeout", "deadline", "", NoBody)

\* spec 4.5 and 7: a poll request ran into its own timeout
poll_timeout_error == Err("NetworkError", "poll timed out", "", NoBody)

\* spec 4.5, step 1: the device-code request got a non-2xx status
device_code_error == Err("TokenExchangeFailed", "device code request failed", "", NoBody)

\* spec 3: DeviceAuthorization, with interval 0 when the response has none
DeviceAuthorization(device_response) ==
  [expires_in |-> device_response.expires_in,
   interval |-> IF device_response.interval = None THEN 0
                ELSE device_response.interval[1]]

NoAuthorization == [expires_in |-> 0, interval |-> 0]

\* the run of the device flow in a process that runs none
NoDeviceFlow ==
  [pc |-> "None", authorization |-> NoAuthorization, displayed |-> FALSE,
   deadline |-> 0, poll_interval |-> 0, now |-> 0, polls |-> <<>>,
   waits |-> <<>>, result |-> NoResult]

\* the responses of the device-authorization endpoint
DeviceResponses ==
  {[status |-> st, expires_in |-> ex, interval |-> iv] :
     st \in {200, 400}, ex \in 0..MaxExpires,
     iv \in {None} \cup {Some(i) : i \in 0..MaxInterval}}

PollErrors ==
  {None, Some("authorization_pending"), Some("slow_down"),
   Some("expired_token"), Some("access_denied"), Some("invalid_grant")}

\* the responses of the token endpoint to a poll
PollResponses ==
  {[status |-> st, error |-> e] : st \in {200, 400}, e \in PollErrors}

\* the mark in the list of polls of a request that timed out
TimedOut == [status |-> 0, error |-> None]

InitCalls(C, F) ==
  /\ this \in [C -> F]
  /\ rng \in [C -> Seeds]
  /\ pc = [p \in C |-> "Start"]
  /\ code_verifier = [p \in C |-> <<>>]
  /\ code_challenge = [p \in C |-> <<>>]
  /\ state = [p \in C |-> <<>>]
  /\ auth_url = [p \in C |-> <<>>]
  /\ item = [p \in C |-> NoItem]
  /\ authorization_code = [p \in C |-> <<>>]
  /\ requests = [p \in C |-> <<>>]
  /\ response = [p \in C |-> NoResponse]
  /\ result = [p \in C |-> NoResult]
  /\ steps = [p \in C |-> <<>>]
  /\ stdout = [p \in C |-> <<>>]
  /\ stdin = <<>>
  /\ stdin_closed = FALSE
  /\ stdin_lock = 0
  /\ typed = 0
  /\ now = 0
  /\ device = NoDeviceFlow

\* one execute() call
Init == InitCalls({1}, Flows)

\* two concurrent execute() calls, for the same account or for two
FewFlows ==
  {OAuthFlow_new(GmailConfig, <<"c","1">>, "s1"),
   OAuthFlow_new(OutlookConfig, <<"x","%"," ","?">>, "s3")}

InitConc == InitCalls({1, 2}, FewFlows)

(***************************************************************************)
(* execute (flow.rs:59-87), step by step.                                  *)
(***************************************************************************)
\* a plausible slip: a failed step sends the flow back to the prompt
retry_on_error(res, next) == IF res.ok THEN next ELSE "UrlBuilt"

\* the ? operator (flow.rs:69, 77, 82): a failure ends execute()
propagate(res, next) == IF res.ok THEN next ELSE "Failed"

\* what execute() has returned after a step with the result res
returned(res, old) == IF res.ok THEN old ELSE res

\* flow.rs:60-66
GenerateSecrets(p) ==
  /\ pc[p] = "Start"
  /\ \E pair \in {thread_rng_pairs[rng[p]]} :
       /\ code_challenge' = [code_challenge EXCEPT ![p] = pair[1]]
       /\ code_verifier' = [code_verifier EXCEPT ![p] = pair[2]]
  /\ state' = [state EXCEPT ![p] = thread_rng_states[rng[p]]]
  /\ pc' = [pc EXCEPT ![p] = "PkceGenerated"]
  /\ steps' = [steps EXCEPT ![p] = Append(@, "generate")]
  /\ UNCHANGED <<device, this, rng, auth_url, item, authorization_code, requests,
                 response, result, stdout, stdin, stdin_closed, stdin_lock, typed, now>>

\* flow.rs:69-74
BuildUrl(p) ==
  /\ pc[p] = "PkceGenerated"
  /\ \E res \in {build_authorization_url(this[p], this[p].provider, state[p],
                                          code_challenge[p])} :
       /\ auth_url' = [auth_url EXCEPT ![p] = IF res.ok THEN res.val ELSE @]
       /\ stdout' = [stdout EXCEPT ![p] = IF res.ok THEN Append(@, "url") ELSE @]
       /\ pc' = [pc EXCEPT ![p] = propagate(res, "UrlBuilt")]
       /\ result' = [result EXCEPT ![p] = returned(res, @)]
  /\ steps' = [steps EXCEPT ![p] = Append(@, "build_url")]
  /\ UNCHANGED <<device, this, rng, code_verifier, code_challenge, state, item,
                 authorization_code, requests, response, stdin, stdin_closed, stdin_lock,
                 typed, now>>

\* flow.rs:77, 154-157: the prompt is printed and flushed, the read begins
Prompt(p, flushed) ==
  /\ pc[p] = "UrlBuilt"
  /\ LET res == IF flushed THEN Ok(<<>>) ELSE flush_error IN
       /\ pc' = [pc EXCEPT ![p] = propagate(res, "AwaitingUserCode")]
       /\ result' = [result EXCEPT ![p] = returned(res, @)]
  /\ stdout' = [stdout EXCEPT ![p] = Append(@, "prompt")]
  /\ steps' = [steps EXCEPT ![p] = Append(@, "prompt")]
  /\ UNCHANGED <<device, this, rng, code_verifier, code_challenge, state, auth_url,
                 item, authorization_code, requests, response, stdin,
                 stdin_closed, stdin_lock, typed, now>>

\* a plausible slip: the read gives up when the clock has advanced
read_returns_timeout == stdin # <<>> \/ stdin_closed \/ now > 0

\* read_line blocks until a line, the end of input or an error is there
read_returns == stdin # <<>> \/ stdin_closed

\* what read_line finds: the first item typed, the end of input when none is
next_item == IF stdin # <<>> THEN Head(stdin) ELSE EndOfInput

\* flow.rs:159-160: the lock of the process's stdin, held until the prompt
\* function returns
LockStdin(p) ==
  /\ pc[p] = "AwaitingUserCode"
  /\ stdin_lock = 0
  /\ stdin_lock' = p
  /\ steps' = [steps EXCEPT ![p] = Append(@, "lock")]
  /\ UNCHANGED <<device, this, pc, rng, code_verifier, code_challenge, state, auth_url,
                 item, authorization_code, requests, response, result, stdout,
                 stdin, stdin_closed, typed, now>>

\* a plausible change: the read checks the state that comes back with the
\* code against the call's own state and refuses the code when they differ;
\* the state that comes back is the one of the generator's stream 0
ReadLine_checking_state(p) ==
  /\ pc[p] = "AwaitingUserCode"
  /\ stdin_lock = p
  /\ read_returns
  /\ \E res \in {IF state[p] = generate_state(0)
                 THEN read_authorization_code(next_item)
                 ELSE Err("UserCancelled", "State mismatch", "", NoBody)} :
       /\ authorization_code' =
            [authorization_code EXCEPT ![p] = IF res.ok THEN res.val ELSE @]
       /\ pc' = [pc EXCEPT ![p] = propagate(res, "Exchanging")]
       /\ result' = [result EXCEPT ![p] = returned(res, @)]
  /\ item' = [item EXCEPT ![p] = next_item]
  /\ stdin' = IF stdin # <<>> THEN Tail(stdin) ELSE stdin
  /\ stdin_lock' = 0
  /\ steps' = [steps EXCEPT ![p] = Append(@, "read")]
  /\ UNCHANGED <<device, this, rng, code_verifier, code_challenge, state, auth_url,
                 requests, response, stdout, stdin_closed, typed, now>>

\* a plausible change: the prompt reads again until the code is not empty
ReadLine_until_code(p) ==
  /\ pc[p] = "AwaitingUserCode"
  /\ stdin_lock = p
  /\ read_returns
  /\ \E res \in {read_authorization_code(next_item)} :
       IF ~res.ok /\ next_item.t # "ioerr"
       THEN /\ stdin' = IF stdin # <<>> THEN Tail(stdin) ELSE stdin
            /\ UNCHANGED <<pc, item, authorization_code, result, steps,
                           stdin_lock>>
       ELSE /\ authorization_code' =
                 [authorization_code EXCEPT ![p] = IF res.ok THEN res.val ELSE @]
            /\ pc' = [pc EXCEPT ![p] = propagate(res, "Exchanging")]
            /\ result' = [result EXCEPT ![p] = returned(res, @)]
            /\ item' = [item EXCEPT ![p] = next_item]
            /\ stdin' = IF stdin # <<>> THEN Tail(stdin) ELSE stdin
            /\ stdin_lock' = 0
            /\ steps' = [steps EXCEPT ![p] = Append(@, "read")]
  /\ UNCHANGED <<device, this, rng, code_verifier, code_challenge, state, auth_url,
                 requests, response, stdout, stdin_closed, typed, now>>

\* flow.rs:77, 161-174
ReadLine(p) ==
  /\ pc[p] = "AwaitingUserCode"
  /\ stdin_lock = p
  /\ read_returns
  /\ \E res \in {read_authorization_code(next_item)} :
       /\ authorization_code' =
            [authorization_code EXCEPT ![p] = IF res.ok THEN res.val ELSE @]
       /\ pc' = [pc EXCEPT ![p] = propagate(res, "Exchanging")]
       /\ result' = [result EXCEPT ![p] = returned(res, @)]
  /\ item' = [item EXCEPT ![p] = next_item]
  /\ stdin' = IF stdin # <<>> THEN Tail(stdin) ELSE stdin
  /\ stdin_lock' = 0
  /\ steps' = [steps EXCEPT ![p] = Append(@, "read")]
  /\ UNCHANGED <<device, this, rng, code_verifier, code_challenge, state, auth_url,
                 requests, response, stdout, stdin_closed, typed, now>>

\* flow.rs:80-82, 183-199: the request is built and POSTed
SendRequest(p) ==
  /\ pc[p] = "Exchanging"
  /\ requests[p] = <<>>
  /\ requests' = [requests EXCEPT ![p] =
       Append(@, [url |-> this[p].provider.token_url,
                  json |-> TokenRequest(this[p], authorization_code[p],
                                        code_verifier[p])])]
  /\ stdout' = [stdout EXCEPT ![p] = Append(@, "exchanging")]
  /\ steps' = [steps EXCEPT ![p] = Append(@, "send")]
  /\ UNCHANGED <<device, this, pc, rng, code_verifier, code_challenge, state, auth_url,
                 item, authorization_code, response, result, stdin,
                 stdin_closed, stdin_lock, typed, now>>

\* flow.rs:199-200: send() fails
TransportFailure(p) ==
  /\ pc[p] = "Exchanging"
  /\ requests[p] # <<>>
  /\ pc' = [pc EXCEPT ![p] = propagate(network_error, "Done")]
  /\ result' = [result EXCEPT ![p] = returned(network_error, @)]
  /\ steps' = [steps EXCEPT ![p] = Append(@, "transport")]
  /\ UNCHANGED <<device, this, rng, code_verifier, code_challenge, state, auth_url,
                 item, authorization_code, requests, response, stdout, stdin,
                 stdin_closed, stdin_lock, typed, now>>

\* flow.rs:199-227, 82-86: send() gives a response
ReceiveResponse(p, r) ==
  /\ pc[p] = "Exchanging"
  /\ requests[p] # <<>>
  /\ response' = [response EXCEPT ![p] = r]
  /\ LET res == handle_response(r) IN
       /\ pc' = [pc EXCEPT ![p] = propagate(res, "Done")]
       /\ result' = [result EXCEPT ![p] = res]
       /\ stdout' = [stdout EXCEPT ![p] =
            IF res.ok THEN @ \o <<"obtained", "successful">> ELSE @]
  /\ steps' = [steps EXCEPT ![p] = Append(@, "response")]
  /\ UNCHANGED <<device, this, rng, code_verifier, code_challenge, state, auth_url,
                 item, authorization_code, requests, stdin, stdin_closed, stdin_lock,
                 typed, now>>

(***************************************************************************)
(* The environment: the user at the terminal and the clock.                *)
(***************************************************************************)
\* at most MaxTyped lines are typed for each call
UserTypes(it) ==
  /\ Running
  /\ ~stdin_closed
  /\ typed < MaxTyped * Cardinality(Calls)
  /\ stdin' = Append(stdin, it)
  /\ typed' = typed + 1
  /\ UNCHANGED <<device, this, pc, rng, code_verifier, code_challenge, state, auth_url,
                 item, authorization_code, requests, response, result, steps,
                 stdout, stdin_closed, stdin_lock, now>>

UserCloses ==
  /\ Running
  /\ ~stdin_closed
  /\ stdin_closed' = TRUE
  /\ UNCHANGED <<device, this, pc, rng, code_verifier, code_challenge, state, auth_url,
                 item, authorization_code, requests, response, result, steps,
                 stdout, stdin, stdin_lock, typed, now>>

Tick ==
  /\ Running
  /\ now < MaxTime
  /\ now' = now + 1
  /\ UNCHANGED <<device, this, pc, rng, code_verifier, code_challenge, state, auth_url,
                 item, authorization_code, requests, response, result, steps,
                 stdout, stdin, stdin_closed, stdin_lock, typed>>

Next ==
  \/ \E p \in Calls : GenerateSecrets(p)
  \/ \E p \in Calls : BuildUrl(p)
  \/ \E p \in Calls, flushed \in BOOLEAN : Prompt(p, flushed)
  \/ \E p \in Calls : LockStdin(p)
  \/ \E p \in Calls : ReadLine(p)
  \/ \E p \in Calls : SendRequest(p)
  \/ \E p \in Calls : TransportFailure(p)
  \/ \E p \in Calls, r \in Responses : ReceiveResponse(p, r)
  \/ \E it \in StdinItems : UserTypes(it)
  \/ UserCloses
  \/ Tick

\* the steps of two calls, with the smaller sets of inputs
NextConc ==
  \/ \E p \in Calls : GenerateSecrets(p)
  \/ \E p \in Calls : BuildUrl(p)
  \/ \E p \in Calls, flushed \in BOOLEAN : Prompt(p, flushed)
  \/ \E p \in Calls : LockStdin(p)
  \/ \E p \in Calls : ReadLine(p)
  \/ \E p \in Calls : SendRequest(p)
  \/ \E p \in Calls : TransportFailure(p)
  \/ \E p \in Calls, r \in FewResponses : ReceiveResponse(p, r)
  \/ \E it \in FewItems : UserTypes(it)
  \/ UserCloses
  \/ Tick

Spec == Init /\ [][Next]_vars

SpecConc == InitConc /\ [][NextConc]_vars

\* two runs of execute() for one account, with the same or with different
\* draws of the generator
InitPair == InitCalls({1, 2}, {OAuthFlow_new(GmailConfig, <<"c", "1">>, "s1")})

SpecPair == InitPair /\ [][NextConc]_vars

(***************************************************************************)
(* Properties.                                                             *)
(***************************************************************************)
PkceAlphabet == Upper \cup Lower \cup Digit \cup {"-", ".", "_", "~"}

\* s has no character but blanks, tabs and newlines
AllWhitespace(s) == \A i \in 1..Len(s) : s[i] \in {" ", "\n", "\t"}

\* the call has read something from stdin
HasRead(p) == item[p].t # "none"

\* what the call read is a line, or the end of input, with nothing in it
EmptyInput(p) == item[p].t \in {"line", "eof"} /\ AllWhitespace(item[p].s)

Is2xx(status) == status \in 200..299

\* the body is a JSON object that fits TokenResponse
Deserializable(body) ==
  /\ body.kind = "object"
  /\ body.access_token.t = "str"
  /\ body.refresh_token.t \in {"absent", "null", "str"}
  /\ \/ body.expires_in.t \in {"absent", "null"}
     \/ body.expires_in.t = "num" /\ body.expires_in.n >= 0

GotResponse(p) == response[p] # NoResponse

LastStep(p) == steps[p][Len(steps[p])]

\* C1: when the line read is empty or only whitespace, execute() has failed
\* with ConfigError and has issued no token request.
C1_EmptyCodeNoExchange ==
  \A p \in Calls :
    EmptyInput(p) =>
      /\ pc[p] = "Failed"
      /\ ~result[p].ok
      /\ result[p].err.kind = "ConfigError"
      /\ requests[p] = <<>>
      /\ response[p] = NoResponse

C1_Witness ==
  \E p \in Calls :
    /\ item[p] = Line(<<"\t", " ", "\n">>)
    /\ pc[p] = "Failed"
    /\ result[p].err.kind = "ConfigError"

FlowOrder ==
  <<"Start", "PkceGenerated", "UrlBuilt", "AwaitingUserCode", "Exchanging", "Done">>

\* C2: a call moves only from a state of the sequence Start, PkceGenerated,
\* UrlBuilt, AwaitingUserCode, Exchanging, Done to the next one, or out of the
\* sequence by failing; so no state is entered twice, none is skipped, none
\* is gone back to, and Done is entered from Exchanging only.
C2_LinearStates ==
  [][\A p \in Calls :
       pc'[p] # pc[p] =>
         \/ pc'[p] = "Failed" /\ pc[p] \notin {"Done", "Failed"}
         \/ \E i \in 1..5 : pc[p] = FlowOrder[i] /\ pc'[p] = FlowOrder[i + 1]]_vars

C2_Witness ==
  \E p \in Calls :
    /\ pc[p] = "Done"
    /\ steps[p] =
         <<"generate", "build_url", "prompt", "lock", "read", "send", "response">>

\* the failure execute() returned is the failure of the last step it ran
FailureOfLastStep(p) ==
  LET e == result[p].err IN
  /\ ~result[p].ok
  /\ LastStep(p) \in {"prompt", "read", "transport", "response"}
  /\ LastStep(p) = "prompt" =>
       /\ e.kind = "ConfigError" /\ e.msg = "Failed to flush stdout: {}"
       /\ ~HasRead(p) /\ requests[p] = <<>>
  /\ LastStep(p) = "read" =>
       /\ e.kind = "ConfigError"
       /\ e.msg = IF item[p].t = "ioerr"
                  THEN "Failed to read authorization code: {}"
                  ELSE "Authorization code cannot be empty"
       /\ requests[p] = <<>>
  /\ LastStep(p) = "transport" =>
       e.kind = "NetworkError" /\ ~GotResponse(p)
  /\ LastStep(p) = "response" =>
       /\ e.kind = "TokenExchangeFailed"
       /\ e.msg = IF Is2xx(response[p].status)
                  THEN "Failed to parse token response: {}"
                  ELSE "Failed to exchange authorization code: {}"

\* a step that fails ends the call
FailedStepEnds(p) ==
  /\ (HasRead(p) /\ (item[p].t = "ioerr" \/ EmptyInput(p))) => pc[p] = "Failed"
  /\ (GotResponse(p) /\ ~Is2xx(response[p].status)) => pc[p] = "Failed"
  /\ (GotResponse(p) /\ ~response[p].readable) => pc[p] = "Failed"
  /\ (GotResponse(p) /\ ~Deserializable(response[p].body)) => pc[p] = "Failed"

\* no step is run twice
NoStepTwice(p) ==
  /\ \A i, j \in 1..Len(steps[p]) : steps[p][i] = steps[p][j] => i = j
  /\ Len(requests[p]) <= 1

\* C3: a step that fails ends the call at that step: the call has failed with
\* the failure of the last step it ran, no step is run twice, and a call that
\* has failed runs nothing more.
C3_FailureStopsFlow ==
  /\ [](\A p \in Calls :
          /\ pc[p] = "Failed" => FailureOfLastStep(p)
          /\ FailedStepEnds(p)
          /\ NoStepTwice(p))
  /\ [][\A p \in Calls : pc[p] = "Failed" => Locals(p)' = Locals(p)]_vars

C3_Witness ==
  \E p \in Calls :
    /\ pc[p] = "Failed"
    /\ LastStep(p) = "response"
    /\ response[p].status = 400
    /\ Deserializable(response[p].body)

\* the call's exchange has ended: send() failed or gave a response
ExchangeEnded(p) == steps[p] # <<>> /\ LastStep(p) \in {"transport", "response"}

\* the transport failure and the 2xx part of the classification
ClassifiedTransportAndParse(p) ==
  /\ LastStep(p) = "transport" =>
       ~result[p].ok /\ result[p].err.kind = "NetworkError"
  /\ (LastStep(p) = "response" /\ Is2xx(response[p].status)
        /\ ~(response[p].readable /\ Deserializable(response[p].body))) =>
       /\ ~result[p].ok
       /\ result[p].err.kind = "TokenExchangeFailed"
       /\ result[p].err.kind # "NetworkError"

\* C4, as claimed: a transport failure gives NetworkError; a non-2xx response
\* gives TokenExchangeFailed with the response body as its text; a 2xx
\* response that does not deserialize gives TokenExchangeFailed.
C4_AsClaimed ==
  \A p \in Calls :
    ExchangeEnded(p) =>
      /\ ClassifiedTransportAndParse(p)
      /\ (LastStep(p) = "response" /\ ~Is2xx(response[p].status)) =>
           /\ ~result[p].ok
           /\ result[p].err.kind = "TokenExchangeFailed"
           /\ result[p].err.text = "{body}"
           /\ result[p].err.body = response[p].body

\* C4, amended: as claimed, but the text of the failure of a non-2xx response
\* is the response body when the body can be read and "Unknown error" when it
\* cannot.
C4_Classification ==
  \A p \in Calls :
    ExchangeEnded(p) =>
      /\ ClassifiedTransportAndParse(p)
      /\ (LastStep(p) = "response" /\ ~Is2xx(response[p].status)) =>
           /\ ~result[p].ok
           /\ result[p].err.kind = "TokenExchangeFailed"
           /\ result[p].err.msg = "Failed to exchange authorization code: {}"
           /\ IF response[p].readable
              THEN /\ result[p].err.text = "{body}"
                   /\ result[p].err.body = response[p].body
              ELSE /\ result[p].err.text = "Unknown error"
                   /\ result[p].err.body = NoBody

C4_Witness ==
  \E p \in Calls :
    /\ ExchangeEnded(p)
    /\ LastStep(p) = "response"
    /\ response[p].status = 299
    /\ response[p].readable
    /\ response[p].body.kind = "object"
    /\ response[p].body.access_token.t = "absent"
    /\ result[p].err.kind = "TokenExchangeFailed"

AuthErrorKinds ==
  {"NetworkError", "TokenExchangeFailed", "CallbackTimeout", "UserCancelled",
   "ConfigError"}

\* the call has returned either tokens or one classified failure
TokensOrFailure(p) ==
  \/ /\ pc[p] = "Done" /\ result[p].ok
     /\ result[p].err = NoError
     /\ result[p].val.access_token # ""
  \/ /\ pc[p] = "Failed" /\ ~result[p].ok
     /\ result[p].err.kind \in AuthErrorKinds

\* Option<T> of a JSON member: none when it is absent or null
OptionOf(v) ==
  IF v.t = "str" THEN <<v.s>> ELSE IF v.t = "num" THEN <<v.n>> ELSE <<>>

\* the tokens returned are the values of the response
TokensOfResponse(p) ==
  /\ result[p].val.access_token = response[p].body.access_token.s
  /\ result[p].val.refresh_token = OptionOf(response[p].body.refresh_token)
  /\ result[p].val.expires_in = OptionOf(response[p].body.expires_in)

\* the body is a JSON object with a member access_token that is a string
ContainsAccessToken(body) ==
  body.kind = "object" /\ body.access_token.t = "str"

\* C5, as claimed: a call that has returned has returned tokens or one
\* classified failure; it has returned tokens exactly when the endpoint
\* answered 2xx with a body containing access_token (read here in the
\* claim's favour: the body arrives and its access_token is a string), and
\* then the tokens are the values of the response.
C5_AsClaimed ==
  \A p \in Calls :
    Returned(p) =>
      /\ TokensOrFailure(p)
      /\ result[p].ok <=>
           /\ GotResponse(p) /\ Is2xx(response[p].status)
           /\ response[p].readable
           /\ ContainsAccessToken(response[p].body)
      /\ result[p].ok => TokensOfResponse(p)

\* C5, amended: tokens are returned exactly when the endpoint answered 2xx
\* with a body that can be read and deserializes to TokenResponse (a JSON
\* object whose access_token is a string, whose refresh_token is absent, null
\* or a string and whose expires_in is absent, null or an unsigned integer).
C5_TokensIffDeserializable ==
  \A p \in Calls :
    Returned(p) =>
      /\ TokensOrFailure(p)
      /\ result[p].ok <=>
           /\ GotResponse(p) /\ Is2xx(response[p].status)
           /\ response[p].readable
           /\ Deserializable(response[p].body)
      /\ result[p].ok => TokensOfResponse(p)

C5_Witness ==
  \E p \in Calls :
    /\ pc[p] = "Done"
    /\ response[p].body.refresh_token = JStr("rt1")
    /\ response[p].body.expires_in = JNull
    /\ result[p].val.refresh_token = <<"rt1">>
    /\ result[p].val.expires_in = <<>>

\* C6, as claimed: empty or invalid input fails with UserCancelled.
C6_AsClaimed ==
  \A p \in Calls :
    (HasRead(p) /\ (item[p].t = "ioerr" \/ EmptyInput(p))) =>
      ~result[p].ok /\ result[p].err.kind = "UserCancelled"

\* C6, amended: empty or invalid input (an empty or whitespace-only line, the
\* end of input, a read error) fails with ConfigError, and no call of the
\* authorization-code flow returns UserCancelled.
C6_InvalidInputIsConfigError ==
  \A p \in Calls :
    /\ (HasRead(p) /\ (item[p].t = "ioerr" \/ EmptyInput(p))) =>
         ~result[p].ok /\ result[p].err.kind = "ConfigError"
    /\ result[p].err.kind # "UserCancelled"

C6_Witness ==
  \E p \in Calls :
    /\ item[p] = EndOfInput
    /\ ~result[p].ok
    /\ result[p].err.msg = "Authorization code cannot be empty"

\* each call uses its own secrets and its own code in its token request
OwnSecretsAndCode(p) ==
  \A i \in 1..Len(requests[p]) :
    /\ requests[p][i].json.code_verifier = code_verifier[p]
    /\ requests[p][i].json.code = authorization_code[p]
    /\ HasRead(p) /\ item[p].t = "line"

\* what a call waiting in read_line will be given
PendingInput == <<read_returns, next_item>>

\* C7: two concurrent calls are independent: each sends its own verifier and
\* the code it read, and a step of one call changes neither the locals of the
\* other nor what the other, waiting for its code, will read.
C7_Independent ==
  /\ [](\A p \in Calls : OwnSecretsAndCode(p))
  /\ [][\A p, q \in Calls :
          (p # q /\ Locals(q)' # Locals(q)) =>
            /\ Locals(p)' = Locals(p)
            /\ pc[p] = "AwaitingUserCode" => PendingInput' = PendingInput]_vars

\* C8: a call leaves AwaitingUserCode only when the read returns: to
\* Exchanging with a code that is not empty, to failure with an empty code or
\* a read error; a tick of the clock does not move it, and with nothing typed
\* and the input open it stays.
C8_NoPromptTimeout ==
  [][\A p \in Calls :
       pc[p] = "AwaitingUserCode" =>
         /\ now' # now => pc'[p] = pc[p]
         /\ (stdin = <<>> /\ ~stdin_closed) => pc'[p] = pc[p]
         /\ pc'[p] # pc[p] =>
              /\ item'[p] = (IF stdin # <<>> THEN Head(stdin) ELSE EndOfInput)
              /\ IF item'[p].t = "line" /\ ~AllWhitespace(item'[p].s)
                 THEN pc'[p] = "Exchanging"
                 ELSE pc'[p] = "Failed"]_vars

C8_Witness ==
  \E p \in Calls :
    /\ pc[p] = "AwaitingUserCode"
    /\ now = MaxTime
    /\ stdin = <<>>
    /\ ~stdin_closed

(***************************************************************************)
(* Reading a URL back: the text before the first '?', and the query cut at *)
(* every '&', each part cut at its first '=', each value percent-decoded.  *)
(***************************************************************************)
Positions(u, c) == {i \in 1..Len(u) : u[i] = c}

Min(S) == CHOOSE i \in S : \A j \in S : i <= j

\* the elements of a set of numbers in increasing order
Sorted(S) ==
  [k \in 1..Cardinality(S) |->
     CHOOSE i \in S : Cardinality({j \in S : j < i}) = k - 1]

HexValue(d) == Min(Positions(HexDigits, d)) - 1

CharOfByte(n) == CHOOSE c \in DOMAIN AsciiTable : AsciiTable[c] = n

PercentDecode(v) ==
  LET pct == Positions(v, "%")
      starts == Sorted({i \in 1..Len(v) : (i - 1) \notin pct /\ (i - 2) \notin pct})
  IN [k \in 1..Len(starts) |->
        LET i == starts[k] IN
        IF v[i] = "%"
        THEN CharOfByte(16 * HexValue(v[i + 1]) + HexValue(v[i + 2]))
        ELSE v[i]]

\* the parts of s between the separators c
Split(s, c) ==
  LET cuts == Sorted(Positions(s, c))
      n == Len(cuts)
  IN [k \in 1..(n + 1) |->
        SubSeq(s, IF k = 1 THEN 1 ELSE cuts[k - 1] + 1,
                  IF k = n + 1 THEN Len(s) ELSE cuts[k] - 1)]

QueryOf(u) == SubSeq(u, Min(Positions(u, "?")) + 1, Len(u))
BaseOf(u) == SubSeq(u, 1, Min(Positions(u, "?")) - 1)

KeyOf(part) == SubSeq(part, 1, Min(Positions(part, "=")) - 1)
ValueOf(part) ==
  PercentDecode(SubSeq(part, Min(Positions(part, "=")) + 1, Len(part)))

\* C9: the URL built is the configured authorization URL, '?', and exactly
\* the seven parameters client_id, response_type=code, scope, state,
\* code_challenge, code_challenge_method=S256, access_type=offline in this
\* order, each value percent-encoded; so equal inputs give equal URLs.
C9_UrlParameters ==
  \A p \in Calls :
    pc[p] = "UrlBuilt" =>
      /\ BaseOf(auth_url[p]) = this[p].provider.auth_url
      /\ \E parts \in {Split(QueryOf(auth_url[p]), "&")} :
           /\ Len(parts) = 7
           /\ [k \in 1..7 |-> KeyOf(parts[k])] =
                <<K_client_id, K_response_type, K_scope, K_state,
                  K_code_challenge, K_code_challenge_method, K_access_type>>
           /\ [k \in 1..7 |-> ValueOf(parts[k])] =
                <<this[p].client_id, V_code,
                  Join(this[p].provider.scopes, <<" ">>), state[p],
                  code_challenge[p], V_S256, V_offline>>
      /\ \A q \in Calls :
           (pc[q] = "UrlBuilt" /\ this[q] = this[p] /\ state[q] = state[p]
              /\ code_challenge[q] = code_challenge[p]) =>
             auth_url[q] = auth_url[p]

C9_Witness ==
  \E p \in Calls :
    /\ pc[p] = "UrlBuilt"
    /\ this[p].client_id = <<"a", "&", "b", "=">>
    /\ Cardinality(Positions(auth_url[p], "&")) = 6

\* C10: every verifier generated has exactly 128 characters, all of the
\* alphabet [A-Za-z0-9-._~].
C10_VerifierShape ==
  \A p \in Calls :
    pc[p] # "Start" =>
      /\ Len(code_verifier[p]) = 128
      /\ \A i \in 1..Len(code_verifier[p]) : code_verifier[p][i] \in PkceAlphabet

C10_Witness ==
  \E p \in Calls :
    /\ pc[p] = "PkceGenerated"
    /\ code_verifier[p][66] = "~"
    /\ code_verifier[p][128] = "9"

(***************************************************************************)
(* C11: every CSRF state string that generate_state produces has exactly   *)
(* 32 characters, each of them a letter, a digit or one of - . _ ~         *)
(***************************************************************************)
C11_StateShape ==
  \A p \in Calls :
    pc[p] # "Start" =>
      /\ Len(state[p]) = 32
      /\ \A i \in 1..Len(state[p]) : state[p][i] \in PkceAlphabet

C11_Witness ==
  \E p \in Calls :
    /\ pc[p] = "PkceGenerated"
    /\ state[p][1] = "-"
    /\ state[p][32] = "b"

\* the six bits that a character of the base64url alphabet stands for, -1 for
\* any other character
SextetOf(c) ==
  IF c \in Upper THEN Ascii(c) - 65
  ELSE IF c \in Lower THEN Ascii(c) - 97 + 26
  ELSE IF c \in Digit THEN Ascii(c) - 48 + 52
  ELSE IF c = "-" THEN 62
  ELSE IF c = "_" THEN 63
  ELSE -1

\* chars is the unpadded base64url text of 32 bytes: ten groups of four
\* characters for three bytes, and three characters for the last two bytes
Base64UrlOf32(chars, bytes) ==
  /\ Len(chars) = 43
  /\ Len(bytes) = 32
  /\ \A i \in 1..Len(chars) : SextetOf(chars[i]) \in 0..63
  /\ \A k \in 0..9 :
       SextetOf(chars[4 * k + 1]) * 262144 + SextetOf(chars[4 * k + 2]) * 4096
         + SextetOf(chars[4 * k + 3]) * 64 + SextetOf(chars[4 * k + 4])
       = bytes[3 * k + 1] * 65536 + bytes[3 * k + 2] * 256 + bytes[3 * k + 3]
  /\ SextetOf(chars[41]) * 4096 + SextetOf(chars[42]) * 64 + SextetOf(chars[43])
       = (bytes[31] * 256 + bytes[32]) * 4

(***************************************************************************)
(* C12: the PKCE challenge is a function of the verifier alone, the        *)
(* unpadded base64url text of the digest of the verifier's bytes: two      *)
(* pairs with equal verifiers have equal challenges, and no challenge has  *)
(* a '+', a '/' or a '='.                                                  *)
(***************************************************************************)
C12_ChallengeOfVerifier ==
  /\ \A p \in Calls, q \in Calls :
       (pc[p] # "Start" /\ pc[q] # "Start"
          /\ code_verifier[p] = code_verifier[q])
         => code_challenge[p] = code_challenge[q]
  /\ \A p \in Calls :
       pc[p] # "Start" =>
         \A i \in 1..Len(code_challenge[p]) :
           code_challenge[p][i] \notin {"+", "/", "="}
  /\ \A p \in Calls :
       pc[p] = "PkceGenerated" =>
         Base64UrlOf32(code_challenge[p], Sha256(as_bytes(code_verifier[p])))

\* two pairs with the same verifier, whose challenge has one of the two
\* characters that the standard alphabet writes as + and /
C12_Witness ==
  \E p \in Calls, q \in Calls :
    /\ p # q
    /\ pc[p] # "Start" /\ pc[q] # "Start"
    /\ code_verifier[p] = code_verifier[q]
    /\ code_challenge[p] = code_challenge[q]
    /\ \E i \in 1..Len(code_challenge[p]) : code_challenge[p][i] \in {"-", "_"}

\* two runs took the same course with the same inputs: the same account,
\* the same steps, the same thing read and the same response
SameInputs(p, q) ==
  /\ this[p] = this[q]
  /\ steps[p] = steps[q]
  /\ item[p] = item[q]
  /\ response[p] = response[q]

(***************************************************************************)
(* C13: the paste-based flow does not check the CSRF state again.  No      *)
(* token request carries the state, and two runs of execute() that have    *)
(* generated different states, and have had the same user input and the    *)
(* same response of the token endpoint, end with the same result.          *)
(***************************************************************************)
C13_StateNotValidated ==
  /\ \A p \in Calls : \A i \in 1..Len(requests[p]) :
       /\ requests[p][i].json.code # state[p]
       /\ requests[p][i].json.code_verifier # state[p]
       /\ requests[p][i].json.client_id # state[p]
  /\ \A p \in Calls, q \in Calls :
       (Returned(p) /\ Returned(q) /\ state[p] # state[q] /\ SameInputs(p, q))
         => result[p] = result[q]

\* two runs with different states, the same pasted code and the same
\* response, which both end with the same tokens
C13_Witness ==
  \E p \in Calls, q \in Calls :
    /\ pc[p] = "Done" /\ pc[q] = "Done"
    /\ state[p] # state[q]
    /\ SameInputs(p, q)
    /\ item[p].t = "line"
    /\ result[p].ok /\ result[p] = result[q]

\* the values of the parameter key in the query of the URL u
ParamValues(u, key) ==
  LET parts == Split(QueryOf(u), "&") IN
  {ValueOf(parts[k]) : k \in {j \in 1..Len(parts) : KeyOf(parts[j]) = key}}

\* every token request of the call carries the call's verifier
VerifierSent(p) ==
  \A i \in 1..Len(requests[p]) :
    requests[p][i].json.code_verifier = code_verifier[p]

\* the URL of the call has one code_challenge, the challenge of the call,
\* which is the unpadded base64url text of the digest of the call's verifier
ChallengeInUrl(p) ==
  pc[p] = "UrlBuilt" =>
    /\ ParamValues(auth_url[p], K_code_challenge) = {code_challenge[p]}
    /\ Base64UrlOf32(code_challenge[p], Sha256(as_bytes(code_verifier[p])))

(***************************************************************************)
(* C18: within one call of execute() the verifier sent in the token        *)
(* request is the verifier the call generated, the code_challenge in the   *)
(* call's authorization URL is the challenge of that verifier, and the     *)
(* call's verifier, challenge and URL, once made, are never replaced.      *)
(***************************************************************************)
C18_PkceBinding ==
  /\ [](\A p \in Calls : VerifierSent(p) /\ ChallengeInUrl(p))
  /\ [][\A p \in Calls :
          /\ pc[p] # "Start" =>
               /\ code_verifier'[p] = code_verifier[p]
               /\ code_challenge'[p] = code_challenge[p]
          /\ auth_url[p] # <<>> => auth_url'[p] = auth_url[p]]_vars

C18_Witness ==
  \E p \in Calls :
    /\ pc[p] = "Exchanging"
    /\ Len(requests[p]) = 1
    /\ requests[p][1].json.code_verifier = code_verifier[p]
    /\ requests[p][1].json.code_verifier # requests[p][1].json.code
    /\ ParamValues(auth_url[p], K_code_challenge) = {code_challenge[p]}

\* c is s without the whitespace at its two ends, and is not empty
TrimmedOf(c, s) ==
  /\ c # <<>>
  /\ \E i \in 1..Len(s), j \in 1..Len(s) :
       /\ i <= j
       /\ c = SubSeq(s, i, j)
       /\ s[i] \notin {" ", "\n", "\t"}
       /\ s[j] \notin {" ", "\n", "\t"}
       /\ \A k \in 1..Len(s) : (k < i \/ k > j) => s[k] \in {" ", "\n", "\t"}

\* the first a in the sequence s comes before the first b
Before(s, a, b) ==
  /\ IndexOf(s, a, 1) > 0
  /\ IndexOf(s, a, 1) < IndexOf(s, b, 1)

(***************************************************************************)
(* C19: a call of execute() issues at most one request to the token        *)
(* endpoint; when it has issued one, it had shown the authorization URL    *)
(* and then read a line that is not empty, before it sent the request,     *)
(* and the code in the request is that line without its leading and        *)
(* trailing whitespace.                                                    *)
(***************************************************************************)
C19_OneRequestAfterCode ==
  \A p \in Calls :
    /\ Len(requests[p]) <= 1
    /\ requests[p] # <<>> =>
         /\ auth_url[p] # <<>>
         /\ Before(stdout[p], "url", "exchanging")
         /\ Before(steps[p], "build_url", "read")
         /\ Before(steps[p], "read", "send")
         /\ item[p].t = "line"
         /\ TrimmedOf(requests[p][1].json.code, item[p].s)
         /\ requests[p][1].url = this[p].provider.token_url

\* a request whose code is the line typed without the blanks around it
C19_Witness ==
  \E p \in Calls :
    /\ Len(requests[p]) = 1
    /\ item[p] = Line(<<" ", "a", " ", "\n">>)
    /\ requests[p][1].json.code = <<"a">>
    /\ pc[p] = "Done"

(***************************************************************************)
(* One call of execute() that is not held up for ever.  execute() is one   *)
(* sequential task (flow.rs:59-87): each of its steps that can be taken is *)
(* taken.  The two conditions on the environment are that the read of the  *)
(* code returns, which it does once the user has typed a line or closed    *)
(* the input, and that a request that was sent completes, with a response  *)
(* or with a transport error.                                              *)
(***************************************************************************)
InitLive == InitCalls({1}, FewFlows)

ReadReturns == UserCloses \/ \E it \in FewItems : UserTypes(it)

RequestCompletes ==
  \E p \in Calls :
    TransportFailure(p) \/ \E r \in FewResponses : ReceiveResponse(p, r)

Fairness ==
  /\ WF_vars(\E p \in Calls : GenerateSecrets(p))
  /\ WF_vars(\E p \in Calls : BuildUrl(p))
  /\ WF_vars(\E p \in Calls, flushed \in BOOLEAN : Prompt(p, flushed))
  /\ WF_vars(\E p \in Calls : LockStdin(p))
  /\ WF_vars(\E p \in Calls : ReadLine(p))
  /\ WF_vars(\E p \in Calls : SendRequest(p))
  /\ WF_vars(ReadReturns)
  /\ WF_vars(RequestCompletes)

SpecLive == InitLive /\ [][NextConc]_vars /\ Fairness

(***************************************************************************)
(* C20: when the read of the user's code returns and every token request   *)
(* completes, every call of execute() terminates: it ends in Done with     *)
(* tokens or it ends with a failure.                                       *)
(***************************************************************************)
C20_Terminates ==
  <>(\A p \in Calls :
       \/ pc[p] = "Done" /\ result[p].ok
       \/ pc[p] = "Failed" /\ ~result[p].ok)

\* a call that has waited for its code and for the response, and has ended
C20_Witness ==
  \E p \in Calls :
    /\ pc[p] = "Done" /\ result[p].ok
    /\ now = MaxTime
    /\ stdin_closed
    /\ steps[p][Len(steps[p])] = "response"

(***************************************************************************)
(* DeviceAuthorizationFlow::execute (spec 4.5), step by step, as one       *)
(* sequential task.  device.now is the clock of that task; the variables   *)
(* of the authorization-code flow are not touched.                         *)
(***************************************************************************)
code_flow_vars ==
  <<this, pc, rng, code_verifier, code_challenge, state, auth_url, item,
    authorization_code, requests, response, result, steps, stdout, stdin,
    stdin_closed, stdin_lock, typed, now>>

InitDevice ==
  /\ this = <<>> /\ pc = <<>> /\ rng = <<>>
  /\ code_verifier = <<>> /\ code_challenge = <<>> /\ state = <<>>
  /\ auth_url = <<>> /\ item = <<>> /\ authorization_code = <<>>
  /\ requests = <<>> /\ response = <<>> /\ result = <<>>
  /\ steps = <<>> /\ stdout = <<>>
  /\ stdin = <<>> /\ stdin_closed = FALSE /\ stdin_lock = 0
  /\ typed = 0 /\ now = 0
  /\ device = [NoDeviceFlow EXCEPT !.pc = "Start"]

\* step 1: the device-code request and its response
RequestDeviceCode(device_response) ==
  /\ device.pc = "Start"
  /\ device' =
       IF ~is_success(device_response.status)
       THEN [device EXCEPT !.pc = "Failed", !.result = device_code_error]
       ELSE [device EXCEPT !.pc = "Display",
                           !.authorization = DeviceAuthorization(device_response)]
  /\ UNCHANGED code_flow_vars

\* step 2, and the start of step 3: the URL and the user code are shown,
\* deadline = now + expires_in, poll_interval = max(interval, 1)
Display ==
  /\ device.pc = "Display"
  /\ device' =
       [device EXCEPT !.pc = "LoopEntry",
                      !.displayed = TRUE,
                      !.deadline = device.now + device.authorization.expires_in,
                      !.poll_interval =
                         initial_poll_interval(device.authorization.interval)]
  /\ UNCHANGED code_flow_vars

\* step 3, loop entry: the deadline is checked before the wait and the poll
CheckDeadline ==
  /\ device.pc = "LoopEntry"
  /\ device' =
       IF expired(device.now, device.deadline)
       THEN [device EXCEPT !.pc = "Failed", !.result = deadline_error]
       ELSE [device EXCEPT !.pc = "Waiting"]
  /\ UNCHANGED code_flow_vars

\* step 3: the wait of poll_interval before the request
Wait ==
  /\ device.pc = "Waiting"
  /\ device' =
       [device EXCEPT !.pc = "Polling",
                      !.now = @ + device.poll_interval,
                      !.waits = Append(@, device.poll_interval)]
  /\ UNCHANGED code_flow_vars

\* step 3: one poll request, answered after took seconds, and what the loop
\* does with its outcome
Poll(poll_response, took) ==
  /\ device.pc = "Polling"
  /\ \E outcome \in {poll_outcome(poll_response)} :
       device' =
         IF outcome \in {"Pending", "SlowDown"}
         THEN [device EXCEPT !.pc = "LoopEntry",
                             !.now = @ + took,
                             !.polls = Append(@, poll_response),
                             !.poll_interval = next_poll_interval(@, outcome)]
         ELSE [device EXCEPT !.pc = IF outcome = "Success" THEN "Done" ELSE "Failed",
                             !.now = @ + took,
                             !.polls = Append(@, poll_response),
                             !.result = outcome_result(outcome, poll_response)]
  /\ UNCHANGED code_flow_vars

\* step 3: the poll request runs into its own timeout
PollTimesOut ==
  /\ device.pc = "Polling"
  /\ device' = [device EXCEPT !.pc = "Failed",
                              !.now = @ + poll_request_timeout,
                              !.polls = Append(@, TimedOut),
                              !.result = poll_timeout_error]
  /\ UNCHANGED code_flow_vars

NextDevice ==
  \/ \E device_response \in DeviceResponses : RequestDeviceCode(device_response)
  \/ Display
  \/ CheckDeadline
  \/ Wait
  \/ \E poll_response \in PollResponses, took \in 0..MaxPollTime :
       Poll(poll_response, took)
  \/ PollTimesOut

SpecDevice == InitDevice /\ [][NextDevice]_vars

\* number of the responses in polls that carry slow_down
SlowDownsIn(polls) ==
  Cardinality({i \in 1..Len(polls) : polls[i].error = Some("slow_down")})

\* the interval the loop starts with
FirstInterval ==
  IF device.authorization.interval > 1 THEN device.authorization.interval ELSE 1

\* the four responses pending, pending, slow_down, success
Script ==
  <<[status |-> 200, error |-> Some("authorization_pending")],
    [status |-> 200, error |-> Some("authorization_pending")],
    [status |-> 200, error |-> Some("slow_down")],
    [status |-> 200, error |-> None]>>

(***************************************************************************)
(* C14: in the poll loop of the device flow the interval starts at         *)
(* max(interval, 1), every slow_down doubles it and authorization_pending  *)
(* leaves it as it is: the wait before a poll is the first interval times  *)
(* 2 to the number of slow_down responses received before it.  When the    *)
(* responses are pending, pending, slow_down, success, four polls have     *)
(* been issued and the wait before the fourth is twice the first.          *)
(***************************************************************************)
C14_IntervalDoubles ==
  /\ device.pc \in {"LoopEntry", "Waiting", "Polling"} =>
       device.poll_interval = FirstInterval * 2 ^ SlowDownsIn(device.polls)
  /\ \A k \in 1..Len(device.waits) :
       device.waits[k] =
         FirstInterval * 2 ^ SlowDownsIn(SubSeq(device.polls, 1, k - 1))
  /\ Len(device.polls) <= Len(device.waits)
  /\ device.polls = Script =>
       /\ Len(device.waits) = 4
       /\ device.waits[4] = 2 * device.waits[1]
       /\ device.waits[2] = device.waits[1] /\ device.waits[3] = device.waits[1]
       /\ device.pc = "Done"

C14_Witness ==
  /\ device.polls = Script
  /\ device.waits = <<1, 1, 1, 2>>
  /\ device.pc = "Done" /\ device.result.ok

(***************************************************************************)
(* C15: the deadline is checked at the entry of the loop, before every     *)
(* poll: an iteration that starts with now >= deadline ends the flow with  *)
(* CallbackTimeout and issues no poll, a poll is issued only after a wait  *)
(* that followed an entry with now < deadline, and with expires_in = 0 no  *)
(* poll is ever issued.                                                    *)
(***************************************************************************)
C15_DeadlineAtLoopEntry ==
  /\ []((device.displayed /\ device.authorization.expires_in = 0) =>
          /\ device.polls = <<>>
          /\ device.pc \in {"LoopEntry", "Failed"}
          /\ device.pc = "Failed" => device.result.err.kind = "CallbackTimeout")
  /\ [][/\ (device.pc = "LoopEntry" /\ device.now >= device.deadline) =>
             /\ device'.pc = "Failed"
             /\ ~device'.result.ok
             /\ device'.result.err.kind = "CallbackTimeout"
             /\ device'.polls = device.polls
        /\ device'.polls # device.polls => device.pc = "Polling"
        /\ (device'.pc = "Polling" /\ device.pc # "Polling") =>
             device.pc = "Waiting"
        /\ (device'.pc = "Waiting" /\ device.pc # "Waiting") =>
             device.pc = "LoopEntry" /\ device.now < device.deadline]_vars

C15_Witness ==
  /\ device.displayed
  /\ device.authorization.expires_in = 0
  /\ device.pc = "Failed"
  /\ device.result.err.kind = "CallbackTimeout"
  /\ device.polls = <<>>

\* C16 as the claim states it: whatever its status, a poll response that
\* carries access_denied ends the flow with UserCancelled.
C16_AsClaimed ==
  \A i \in 1..Len(device.polls) :
    device.polls[i].error = Some("access_denied") =>
      /\ i = Len(device.polls)
      /\ device.pc = "Failed"
      /\ device.result.err.kind = "UserCancelled"

(***************************************************************************)
(* C16: a poll response that carries access_denied is the last poll of the *)
(* flow, and the flow fails: with UserCancelled when the status of the     *)
(* response is 2xx, with TokenExchangeFailed when it is not.               *)
(***************************************************************************)
C16_DeniedEndsFlow ==
  \A i \in 1..Len(device.polls) :
    device.polls[i].error = Some("access_denied") =>
      /\ i = Len(device.polls)
      /\ device.pc = "Failed"
      /\ ~device.result.ok
      /\ device.result.err.kind =
           IF device.polls[i].status \in 200..299
           THEN "UserCancelled" ELSE "TokenExchangeFailed"

C16_Witness ==
  /\ Len(device.polls) >= 2
  /\ device.polls[Len(device.polls)] =
       [status |-> 200, error |-> Some("access_denied")]
  /\ device.pc = "Failed"
  /\ device.result.err.kind = "UserCancelled"

(***************************************************************************)
(* C17: a poll that is answered with a status that is not 2xx is the last  *)
(* poll of the flow, and the flow fails with TokenExchangeFailed, whatever *)
(* the error field of the response is.                                     *)
(***************************************************************************)
C17_Non2xxIsFatal ==
  \A i \in 1..Len(device.polls) :
    (device.polls[i] # TimedOut /\ device.polls[i].status \notin 200..299) =>
      /\ i = Len(device.polls)
      /\ device.pc = "Failed"
      /\ ~device.result.ok
      /\ device.result.err.kind = "TokenExchangeFailed"

C17_Witness ==
  /\ Len(device.polls) >= 2
  /\ device.polls[Len(device.polls)] =
       [status |-> 400, error |-> Some("authorization_pending")]
  /\ device.pc = "Failed"
  /\ device.result.err.kind = "TokenExchangeFailed"

=============================================================================
